---- MODULE Spec2Model ----
(***************************************************************************)
(* binomtest: exact p-value of a one-sample binomial test                  *)
(* (src/src/lib.rs: binomial_test and binary_search).                      *)
(*                                                                         *)
(* Numbers.  A probability p is the dyadic rational num / Den with         *)
(* Den = 2^PBits, which an f64 holds exactly.  A value returned by the     *)
(* distribution (pmf, cdf, sf) and a p-value are exact rationals, kept as  *)
(* integer numerators over the common denominator Scale(a, nn); the        *)
(* rounding inside the distribution library is not modelled (the library   *)
(* is an external collaborator with the standard semantics).               *)
(*                                                                         *)
(* Widths.  u64 is scaled to WordBits bits and the 53-bit significand of   *)
(* f64 to MantBits bits, WordBits > MantBits as 64 > 53, so that           *)
(* `n as f64`, `p * n`, `as u64` round and saturate as they do in the      *)
(* program.  In the small region (n <= MaxN) every product p * n is exact. *)
(* In the wide region (n >= 2^MantBits) the conversions round; there p is  *)
(* 0 or 1 so that the distribution is degenerate and needs no big numbers. *)
(***************************************************************************)
EXTENDS Integers, Sequences, FiniteSets, TLC

VARIABLES
    k, n, p, alt,        \* arguments of binomial_test
    pc,                  \* position in binomial_test / binary_search
    binom,               \* TRUE once Binomial::new has been called
    d,                   \* let d = binom.pmf(k)
    fmode, ftab,         \* the closure passed to binary_search
    key, low, high,      \* binary_search's key and its mutable low, high
    lowArg, highArg,     \* low and high as passed by the caller
    x,                   \* value returned by binary_search
    iters,               \* loop iterations of the running search
    evals,               \* indices the search evaluated f at
    calls,               \* calls made to the distribution: <<fn, arg>>
    ovf,                 \* TRUE once an u64 operation wrapped (panics in debug)
    result               \* value returned by binomial_test

vars == <<k, n, p, alt, pc, binom, d, fmode, ftab, key, low, high,
          lowArg, highArg, x, iters, evals, calls, ovf, result>>

----------------------------------------------------------------------------
\* Bounds of the model

\* bits of the scaled u64
WordBits == 7
\* bits of the scaled f64 significand
MantBits == 5
\* p ranges over multiples of 1 / 2^PBits
PBits == 2
\* largest n of the small (exact) region
MaxN == 6
\* how many n are taken at each end of the wide region
WideSpan == 5
\* binary_search alone: indices 0..MaxIdx, values 0..MaxVal
MaxIdx == 4
MaxVal == 2

----------------------------------------------------------------------------
\* Arithmetic helpers

RECURSIVE Pow(_, _)
Pow(b, e) == IF e = 0 THEN 1 ELSE b * Pow(b, e - 1)

Den == Pow(2, PBits)
UMax == Pow(2, WordBits) - 1

RECURSIVE Choose(_, _)
Choose(nn, r) == IF r = 0 THEN 1 ELSE (Choose(nn, r - 1) * (nn - r + 1)) \div r

\* u64 subtraction and addition: the wrapped value and whether it wrapped
USub(a, b) == [v |-> (a - b) % (UMax + 1), o |-> a < b]
UAdd(a, b) == [v |-> (a + b) % (UMax + 1), o |-> a + b > UMax]

\* u64::checked_sub(a, 1).unwrap_or(0)
CheckedSub1Or0(a) == IF a >= 1 THEN a - 1 ELSE 0

\* float -> u64 cast of a non-negative integer-valued float: saturating
SatU64(v) == IF v > UMax THEN UMax ELSE v

\* round a non-negative integer to MantBits significant bits, ties to even
RECURSIVE ExpOf(_, _)
ExpOf(v, e) == IF v \div Pow(2, e) < Pow(2, MantBits) THEN e ELSE ExpOf(v, e + 1)

RoundSig(v) ==
    LET e == ExpOf(v, 0)
        u == Pow(2, e)
        q == v \div u
        r == v % u
    IN  IF e = 0 THEN v
        ELSE IF 2 * r > u \/ (2 * r = u /\ q % 2 = 1) THEN (q + 1) * u
        ELSE q * u

\* n as f64
ToF64(nn) == RoundSig(nn)

\* p * (n as f64), as a numerator over Den
PTimesN(a, nn) == RoundSig(a * ToF64(nn))

\* (p * (n as f64)) as u64  and  (p * (n as f64)).floor() as u64
FloorPN(a, nn) == SatU64(PTimesN(a, nn) \div Den)

\* (p * (n as f64)).ceil() as u64
CeilPN(a, nn) == SatU64((PTimesN(a, nn) + Den - 1) \div Den)

\* f64::total_cmp on values without NaN whose zeros carry the same sign
TotalCmp(a, b) == IF a < b THEN "Less" ELSE IF a = b THEN "Equal" ELSE "Greater"

----------------------------------------------------------------------------
\* The distribution Binomial::new(p, n), p = a / Den

\* common denominator of the values of Binomial(a / Den, nn)
Scale(a, nn) == IF a = 0 \/ a = Den THEN 1 ELSE Pow(Den, nn)

pmf(a, nn, i) ==
    IF i > nn THEN 0
    ELSE IF a = 0 THEN (IF i = 0 THEN 1 ELSE 0)
    ELSE IF a = Den THEN (IF i = nn THEN 1 ELSE 0)
    ELSE Choose(nn, i) * Pow(a, i) * Pow(Den - a, nn - i)

RECURSIVE SumPmf(_, _, _, _)
SumPmf(a, nn, lo, hi) ==
    IF lo > hi THEN 0
    ELSE IF lo = hi THEN pmf(a, nn, lo)
    ELSE LET m == (lo + hi) \div 2
         IN  SumPmf(a, nn, lo, m) + SumPmf(a, nn, m + 1, hi)

\* P(X <= i)
cdf(a, nn, i) ==
    IF i >= nn THEN Scale(a, nn)
    ELSE IF a = 0 THEN 1
    ELSE IF a = Den THEN 0
    ELSE SumPmf(a, nn, 0, i)

\* P(X > i)
sf(a, nn, i) ==
    IF i >= nn THEN 0
    ELSE IF a = 0 THEN 0
    ELSE IF a = Den THEN 1
    ELSE SumPmf(a, nn, i + 1, nn)

----------------------------------------------------------------------------
\* binary_search(f, key, low, high)

\* the closure: |x| -binom.pmf(x), |x| binom.pmf(x), or a table (search alone)
FAt(fm, a, nn, tab, i) ==
    IF fm = "negpmf" THEN 0 - pmf(a, nn, i)
    ELSE IF fm = "pmf" THEN pmf(a, nn, i)
    ELSE IF i \in DOMAIN tab THEN tab[i] ELSE 0

\* variant: (low + high) / 2
MidNaive(lo, hi) ==
    LET m == UAdd(lo, hi)
    IN  [v |-> m.v \div 2, o |-> m.o]

\* let mid = low + (high - low) / 2
Mid(lo, hi) ==
    LET s == USub(hi, lo)
        m == UAdd(lo, s.v \div 2)
    IN  [v |-> m.v, o |-> s.o \/ m.o]

\* variant: low = mid
LessArmStuck(mid) == [v |-> mid, o |-> FALSE]

\* Ordering::Less => low = mid + 1
LessArm(mid) == UAdd(mid, 1)

\* Ordering::Greater => if mid == 0 { return 0 } else { high = mid - 1 }
GreaterArm(mid) ==
    IF mid = 0 THEN [ret |-> TRUE, v |-> 0, o |-> FALSE]
    ELSE [ret |-> FALSE, v |-> mid - 1, o |-> FALSE]

\* one pass through the body of `while low < high`
LoopBody(fm, a, nn, tab, ky, lo, hi) ==
    LET m == Mid(lo, hi)
        c == TotalCmp(FAt(fm, a, nn, tab, m.v), ky)
    IN  IF c = "Less" THEN
            [arm |-> c, at |-> m.v, ret |-> FALSE, x |-> 0,
             low |-> LessArm(m.v).v, high |-> hi, o |-> m.o \/ LessArm(m.v).o]
        ELSE IF c = "Equal" THEN
            [arm |-> c, at |-> m.v, ret |-> TRUE, x |-> m.v,
             low |-> lo, high |-> hi, o |-> m.o]
        ELSE
            LET g == GreaterArm(m.v)
            IN  [arm |-> c, at |-> m.v, ret |-> g.ret, x |-> 0,
                 low |-> lo, high |-> IF g.ret THEN hi ELSE g.v, o |-> m.o \/ g.o]

\* after the loop: if f(low) <= key { return low }  checked_sub(low, 1).unwrap_or(0)
PostLoop(fm, a, nn, tab, ky, lo) ==
    IF FAt(fm, a, nn, tab, lo) <= ky THEN lo ELSE CheckedSub1Or0(lo)

RECURSIVE binary_search(_, _, _, _, _, _, _)
binary_search(fm, a, nn, tab, ky, lo, hi) ==
    IF lo < hi THEN
        LET b == LoopBody(fm, a, nn, tab, ky, lo, hi)
        IN  IF b.ret THEN b.x ELSE binary_search(fm, a, nn, tab, ky, b.low, b.high)
    ELSE PostLoop(fm, a, nn, tab, ky, lo)

----------------------------------------------------------------------------
\* binomial_test(k, n, p, alt)

NoResult == [tag |-> "none", msg |-> "", val |-> 0]
Err(m) == [tag |-> "Err", msg |-> m, val |-> 0]
Ok(v) == [tag |-> "Ok", msg |-> "", val |-> v]

ErrTrials == Err("Number of trials n must be > 0")
ErrSuccesses == Err("Number of successes k must be <= n and > 0")
ErrProbability == Err("Probability p must be in [0, 1]")

\* if n < 1
TrialsInvalid(nn) == nn < 1

\* if k > n
SuccessesInvalid(kk, nn) == kk > nn

\* variant: if p < 0. || p > 1., which a NaN passes
ProbabilityInvalidNaive(pp) == ~pp.nan /\ (pp.num < 0 \/ pp.num > Den)

\* if !(0. ..=1.).contains(&p): a NaN is in no range
ProbabilityInvalid(pp) == ~(~pp.nan /\ 0 <= pp.num /\ pp.num <= Den)

\* Alternative::Greater
GreaterValue(a, nn, kk) == IF kk = 0 THEN Scale(a, nn) ELSE sf(a, nn, USub(kk, 1).v)
GreaterOvf(kk) == kk # 0 /\ USub(kk, 1).o

\* variant: the two arguments exchanged
TwoSidedLessSwapped(a, nn, kk, xx) == cdf(a, nn, xx) + sf(a, nn, kk)

\* Ordering::Less: Ok(binom.cdf(k) + binom.sf(x))
TwoSidedLessValue(a, nn, kk, xx) == cdf(a, nn, kk) + sf(a, nn, xx)

\* variant: without the x == 0 special case
LowTailNoGuard(a, nn, xx, dd) == cdf(a, nn, xx)

\* let cdf = if x == 0 && d < binom.pmf(x) { 0. } else { binom.cdf(x) }
LowTail(a, nn, xx, dd) ==
    IF xx = 0 /\ dd < pmf(a, nn, xx) THEN 0 ELSE cdf(a, nn, xx)

\* the distribution calls the line above makes
LowTailCalls(a, nn, xx, dd) ==
    IF xx = 0
    THEN IF dd < pmf(a, nn, xx) THEN {<<"pmf", xx>>} ELSE {<<"pmf", xx>>, <<"cdf", xx>>}
    ELSE {<<"cdf", xx>>}

\* Ordering::Greater: Ok(cdf + binom.sf(k - 1))
TwoSidedGreaterValue(a, nn, kk, xx, dd) ==
    LowTail(a, nn, xx, dd) + sf(a, nn, USub(kk, 1).v)

\* the TwoSided arm as a function of its arguments
TwoSidedValue(a, nn, kk) ==
    LET dd == pmf(a, nn, kk)
        m == FloorPN(a, nn)
    IN  IF kk = m THEN Scale(a, nn)
        ELSE IF kk < m THEN
            TwoSidedLessValue(a, nn, kk,
                binary_search("negpmf", a, nn, <<>>, 0 - dd, CeilPN(a, nn), nn))
        ELSE
            TwoSidedGreaterValue(a, nn, kk,
                binary_search("pmf", a, nn, <<>>, dd, 0, FloorPN(a, nn)), dd)

----------------------------------------------------------------------------
\* Inputs

Alternatives == {"TwoSided", "Less", "Greater"}

Prob(a) == [nan |-> FALSE, num |-> a]
NaN == [nan |-> TRUE, num |-> 0]

\* small region: every n up to MaxN, k up to n + 1, p from below 0 to above 1 and NaN
SmallInputs ==
    {<<kk, nn, pp>> \in (0..MaxN + 1) \X (0..MaxN) \X ({Prob(a) : a \in -1..Den + 1} \cup {NaN}) :
        kk <= nn + 1}

\* wide region: n where `n as f64` rounds, up to the largest u64; p is 0 or 1
WideNs == (Pow(2, MantBits)..Pow(2, MantBits) + WideSpan) \cup (UMax - WideSpan..UMax)

WideInputs ==
    {<<kk, nn, pp>> \in (0..UMax) \X WideNs \X {Prob(0), Prob(Den)} : kk <= nn}

InitWith(inputs) ==
    /\ \E i \in inputs : k = i[1] /\ n = i[2] /\ p = i[3]
    /\ alt \in Alternatives
    /\ pc = "check_n"
    /\ binom = FALSE
    /\ d = 0
    /\ fmode = "none"
    /\ ftab = <<>>
    /\ key = 0 /\ low = 0 /\ high = 0 /\ lowArg = 0 /\ highArg = 0
    /\ x = 0
    /\ iters = 0
    /\ evals = {}
    /\ calls = {}
    /\ ovf = FALSE
    /\ result = NoResult

Init == InitWith(SmallInputs \cup WideInputs)

\* binary_search called on its own with a table for f
InitSearch ==
    /\ k = 0 /\ n = 0 /\ p = Prob(0) /\ alt = "TwoSided"
    /\ pc = "loop"
    /\ binom = FALSE
    /\ d = 0
    /\ fmode = "tab"
    /\ ftab \in [0..MaxIdx -> 0..MaxVal]
    /\ key \in 0..MaxVal
    /\ low \in 0..MaxIdx /\ high \in 0..MaxIdx /\ low <= high
    /\ lowArg = low /\ highArg = high
    /\ x = 0
    /\ iters = 0
    /\ evals = {}
    /\ calls = {}
    /\ ovf = FALSE
    /\ result = NoResult

----------------------------------------------------------------------------
\* Steps of binomial_test

inputsUnchanged == UNCHANGED <<k, n, p, alt>>
searchUnchanged ==
    UNCHANGED <<fmode, ftab, key, low, high, lowArg, highArg, x, iters, evals>>

Return(r) == result' = r /\ pc' = "done"

CheckTrials ==
    /\ pc = "check_n"
    /\ IF TrialsInvalid(n) THEN Return(ErrTrials)
       ELSE pc' = "check_k" /\ UNCHANGED result
    /\ inputsUnchanged /\ searchUnchanged /\ UNCHANGED <<binom, d, calls, ovf>>

CheckSuccesses ==
    /\ pc = "check_k"
    /\ IF SuccessesInvalid(k, n) THEN Return(ErrSuccesses)
       ELSE pc' = "check_p" /\ UNCHANGED result
    /\ inputsUnchanged /\ searchUnchanged /\ UNCHANGED <<binom, d, calls, ovf>>

CheckProbability ==
    /\ pc = "check_p"
    /\ IF ProbabilityInvalid(p) THEN Return(ErrProbability)
       ELSE pc' = "new" /\ UNCHANGED result
    /\ inputsUnchanged /\ searchUnchanged /\ UNCHANGED <<binom, d, calls, ovf>>

NewBinomial ==
    /\ pc = "new"
    /\ binom' = TRUE
    /\ pc' = "match"
    /\ inputsUnchanged /\ searchUnchanged /\ UNCHANGED <<d, calls, ovf, result>>

AltLess ==
    /\ pc = "match" /\ alt = "Less"
    /\ calls' = calls \cup {<<"cdf", k>>}
    /\ Return(Ok(cdf(p.num, n, k)))
    /\ inputsUnchanged /\ searchUnchanged /\ UNCHANGED <<binom, d, ovf>>

AltGreater ==
    /\ pc = "match" /\ alt = "Greater"
    /\ calls' = IF k = 0 THEN calls ELSE calls \cup {<<"sf", USub(k, 1).v>>}
    /\ ovf' = (ovf \/ GreaterOvf(k))
    /\ Return(Ok(GreaterValue(p.num, n, k)))
    /\ inputsUnchanged /\ searchUnchanged /\ UNCHANGED <<binom, d>>

AltTwoSided ==
    /\ pc = "match" /\ alt = "TwoSided"
    /\ d' = pmf(p.num, n, k)
    /\ calls' = calls \cup {<<"pmf", k>>}
    /\ pc' = "ts_cmp"
    /\ inputsUnchanged /\ searchUnchanged /\ UNCHANGED <<binom, ovf, result>>

TwoSidedEqual ==
    /\ pc = "ts_cmp" /\ k = FloorPN(p.num, n)
    /\ Return(Ok(Scale(p.num, n)))
    /\ inputsUnchanged /\ searchUnchanged /\ UNCHANGED <<binom, d, calls, ovf>>

CallSearch(fm, ky, lo, hi) ==
    /\ fmode' = fm /\ key' = ky
    /\ low' = lo /\ high' = hi /\ lowArg' = lo /\ highArg' = hi
    /\ iters' = 0 /\ evals' = {}
    /\ pc' = "loop"
    /\ UNCHANGED <<ftab, x>>

TwoSidedLess ==
    /\ pc = "ts_cmp" /\ k < FloorPN(p.num, n)
    /\ CallSearch("negpmf", 0 - d, CeilPN(p.num, n), n)
    /\ inputsUnchanged /\ UNCHANGED <<binom, d, calls, ovf, result>>

TwoSidedGreater ==
    /\ pc = "ts_cmp" /\ k > FloorPN(p.num, n)
    /\ CallSearch("pmf", d, 0, FloorPN(p.num, n))
    /\ inputsUnchanged /\ UNCHANGED <<binom, d, calls, ovf, result>>

TwoSidedLessFinish ==
    /\ pc = "ret" /\ fmode = "negpmf"
    /\ calls' = calls \cup {<<"cdf", k>>, <<"sf", x>>}
    /\ Return(Ok(TwoSidedLessValue(p.num, n, k, x)))
    /\ inputsUnchanged /\ searchUnchanged /\ UNCHANGED <<binom, d, ovf>>

TwoSidedGreaterFinish ==
    /\ pc = "ret" /\ fmode = "pmf"
    /\ calls' = calls \cup LowTailCalls(p.num, n, x, d) \cup {<<"sf", USub(k, 1).v>>}
    /\ ovf' = (ovf \/ USub(k, 1).o)
    /\ Return(Ok(TwoSidedGreaterValue(p.num, n, k, x, d)))
    /\ inputsUnchanged /\ searchUnchanged /\ UNCHANGED <<binom, d>>

----------------------------------------------------------------------------
\* Steps of binary_search

Body == LoopBody(fmode, p.num, n, ftab, key, low, high)

FCalls(i) == IF fmode = "tab" THEN calls ELSE calls \cup {<<"pmf", i>>}

Iterate(b) ==
    /\ iters' = iters + 1
    /\ evals' = evals \cup {b.at}
    /\ calls' = FCalls(b.at)
    /\ ovf' = (ovf \/ b.o)
    /\ low' = b.low /\ high' = b.high
    /\ IF b.ret THEN x' = b.x /\ pc' = "ret" ELSE UNCHANGED <<x, pc>>
    /\ inputsUnchanged
    /\ UNCHANGED <<binom, d, fmode, ftab, key, lowArg, highArg, result>>

SearchLess == pc = "loop" /\ low < high /\ Body.arm = "Less" /\ Iterate(Body)

SearchEqual == pc = "loop" /\ low < high /\ Body.arm = "Equal" /\ Iterate(Body)

SearchGreater == pc = "loop" /\ low < high /\ Body.arm = "Greater" /\ Iterate(Body)

SearchPost ==
    /\ pc = "loop" /\ ~(low < high)
    /\ x' = PostLoop(fmode, p.num, n, ftab, key, low)
    /\ evals' = evals \cup {low}
    /\ calls' = FCalls(low)
    /\ pc' = "ret"
    /\ inputsUnchanged
    /\ UNCHANGED <<binom, d, fmode, ftab, key, low, high, lowArg, highArg, iters, ovf,
                   result>>

----------------------------------------------------------------------------

NextSearch == SearchLess \/ SearchEqual \/ SearchGreater \/ SearchPost

Next ==
    \/ CheckTrials \/ CheckSuccesses \/ CheckProbability \/ NewBinomial
    \/ AltLess \/ AltGreater \/ AltTwoSided
    \/ TwoSidedEqual \/ TwoSidedLess \/ TwoSidedGreater
    \/ TwoSidedLessFinish \/ TwoSidedGreaterFinish
    \/ NextSearch

Spec == Init /\ [][Next]_vars

SpecSearch == InitSearch /\ [][NextSearch]_vars

\* the step-by-step run and the functional form of the TwoSided arm agree
StepwiseAgrees ==
    (pc = "done" /\ result.tag = "Ok" /\ alt = "TwoSided")
        => result.val = TwoSidedValue(p.num, n, k)

----------------------------------------------------------------------------
\* Properties

Done == pc = "done"
ValidInput == n >= 1 /\ k <= n /\ ~p.nan /\ 0 <= p.num /\ p.num <= Den
ReturnedOk == Done /\ result.tag = "Ok"

SetMin(S) == CHOOSE i \in S : \A j \in S : i <= j
SetMax(S) == CHOOSE i \in S : \A j \in S : j <= i

\* sum of pmf(i) over the i of lo..hi with pmf(i) <= dd
RECURSIVE MassNoGreater(_, _, _, _, _)
MassNoGreater(a, nn, dd, lo, hi) ==
    IF lo > hi THEN 0
    ELSE IF lo = hi THEN (IF pmf(a, nn, lo) <= dd THEN pmf(a, nn, lo) ELSE 0)
    ELSE LET m == (lo + hi) \div 2
         IN  MassNoGreater(a, nn, dd, lo, m) + MassNoGreater(a, nn, dd, m + 1, hi)

\* the reference test: Less = P(X <= k), Greater = P(X >= k),
\* TwoSided = the mass of the outcomes no likelier than k
Reference(a, nn, kk, al) ==
    IF al = "Less" THEN SumPmf(a, nn, 0, kk)
    ELSE IF al = "Greater" THEN SumPmf(a, nn, kk, nn)
    ELSE MassNoGreater(a, nn, pmf(a, nn, kk), 0, nn)

\* C1: for every valid input and alternative binomial_test returns the p-value
\* of the reference test computed from the same pmf.
C1_MatchesReference ==
    ReturnedOk => result.val = Reference(p.num, n, k, alt)

\* C2: the TwoSided result is the same for (k, n, p) and (n - k, n, 1 - p),
\* also when an outcome on the other side has exactly the observed mass.
C2_TwoSidedSymmetry ==
    (ReturnedOk /\ alt = "TwoSided")
        => result.val = TwoSidedValue(Den - p.num, n, n - k)

\* C3: the inputs are checked in the order n, k, p and the first failure wins;
\* Ok is returned exactly for n >= 1, k <= n, 0 <= p <= 1; a failure path
\* neither builds the distribution nor calls pmf, cdf or sf.
C3_ValidationOrder ==
    /\ Done =>
         IF n = 0 THEN result = ErrTrials
         ELSE IF k > n THEN result = ErrSuccesses
         ELSE IF p.nan \/ p.num < 0 \/ p.num > Den THEN result = ErrProbability
         ELSE result.tag = "Ok"
    /\ (binom \/ calls # {}) => ValidInput
    /\ (Done /\ result.tag = "Err") => (~binom /\ calls = {})

C3_Witness ==
    Done /\ n = 0 /\ k > n /\ p.nan /\ result = ErrTrials

\* C4: the returned value lies in [0, 1], and in the TwoSided arms the two
\* summed tails do not overlap: the high tail starts above k in cdf(k) + sf(x),
\* the low tail ends below k in cdf(x) + sf(k - 1).
C4_ValueInUnitInterval ==
    /\ ReturnedOk => (0 <= result.val /\ result.val <= Scale(p.num, n))
    /\ (pc = "ret" /\ fmode = "negpmf") => x >= k
    /\ (pc = "ret" /\ fmode = "pmf") => x < k

C4_Witness ==
    /\ ReturnedOk /\ alt = "TwoSided" /\ fmode = "negpmf"
    /\ x > k
    /\ sf(p.num, n, x) > 0 /\ cdf(p.num, n, k) > 0
    /\ result.val < Scale(p.num, n)

NonDecreasing(fm, a, nn, tab, lo, hi) ==
    \A i \in lo..hi - 1 : FAt(fm, a, nn, tab, i) <= FAt(fm, a, nn, tab, i + 1)

NoGreaterIn(fm, a, nn, tab, ky, lo, hi) ==
    {i \in lo..hi : FAt(fm, a, nn, tab, i) <= ky}

\* C5: for f non-decreasing on [low, high], plateaus allowed, binary_search
\* returns the largest index of [low, high] with f(x) <= key, and low - 1
\* (saturating at 0) when there is none.
C5_LargestIndexNoGreater ==
    (pc = "ret" /\ NonDecreasing(fmode, p.num, n, ftab, lowArg, highArg))
        => LET S == NoGreaterIn(fmode, p.num, n, ftab, key, lowArg, highArg)
           IN  x = IF S = {} THEN CheckedSub1Or0(lowArg) ELSE SetMax(S)

\* C5, the case the code gets right: f non-decreasing and equal to key at no
\* more than one index of [low, high].
C5_HoldsWithoutPlateauAtKey ==
    (/\ pc = "ret"
     /\ NonDecreasing(fmode, p.num, n, ftab, lowArg, highArg)
     /\ Cardinality({i \in lowArg..highArg : FAt(fmode, p.num, n, ftab, i) = key}) <= 1)
        => LET S == NoGreaterIn(fmode, p.num, n, ftab, key, lowArg, highArg)
           IN  x = IF S = {} THEN CheckedSub1Or0(lowArg) ELSE SetMax(S)

\* C6: TwoSided with k < floor(p*n): the result is P(X <= k) plus the mass of
\* x..n, x the smallest index of [ceil(p*n), n] with pmf(x) <= pmf(k), and
\* plus 0 when there is no such index.
C6_LowSideObservation ==
    (ReturnedOk /\ alt = "TwoSided" /\ k < FloorPN(p.num, n))
        => LET S == {i \in CeilPN(p.num, n)..n : pmf(p.num, n, i) <= pmf(p.num, n, k)}
           IN  result.val = SumPmf(p.num, n, 0, k)
                   + (IF S = {} THEN 0 ELSE SumPmf(p.num, n, SetMin(S), n))

LowSideNoGreater == {i \in 0..FloorPN(p.num, n) : pmf(p.num, n, i) <= pmf(p.num, n, k)}

\* C7: TwoSided with k > floor(p*n): the result is P(X >= k) plus cdf(x) for
\* the largest x of [0, floor(p*n)] with pmf(x) <= pmf(k), and plus exactly 0
\* when there is no such index.
C7_HighSideObservation ==
    (ReturnedOk /\ alt = "TwoSided" /\ k > FloorPN(p.num, n))
        => result.val = SumPmf(p.num, n, k, n)
               + (IF LowSideNoGreater = {} THEN 0
                  ELSE SumPmf(p.num, n, 0, SetMax(LowSideNoGreater)))

C7_Witness ==
    /\ ReturnedOk /\ alt = "TwoSided" /\ k > FloorPN(p.num, n)
    /\ LowSideNoGreater = {}
    /\ cdf(p.num, n, 0) > 0
    /\ result.val = SumPmf(p.num, n, k, n)

RECURSIVE CeilLog2From(_, _)
CeilLog2From(s, e) == IF Pow(2, e) >= s THEN e ELSE CeilLog2From(s, e + 1)
CeilLog2(s) == CeilLog2From(s, 0)

\* C8: binary_search terminates for every f, key and low <= high: in the loop
\* mid lies in [low, high), i iterations leave at most (high - low + 1) / 2^i
\* indices, and there are at most ceil(log2(high - low + 1)) iterations.
C8_SearchTerminates ==
    /\ iters <= CeilLog2(highArg - lowArg + 1)
    /\ pc = "loop" =>
         high - low + 1 <= (highArg - lowArg + 1) \div Pow(2, iters)
    /\ (pc = "loop" /\ low < high) =>
         (low <= Mid(low, high).v /\ Mid(low, high).v < high)

C8_Witness ==
    pc = "ret" /\ iters >= 2 /\ iters = CeilLog2(highArg - lowArg + 1)

\* C9: for every valid input no u64 operation of binomial_test or
\* binary_search wraps, up to the largest n, and low - 1 saturates at 0.
C9_NoWrap ==
    /\ ~ovf
    /\ low \in 0..UMax /\ high \in 0..UMax /\ x \in 0..UMax

C9_Witness ==
    /\ ReturnedOk /\ alt = "TwoSided" /\ ~ovf
    /\ iters >= 1
    /\ highArg >= UMax - 2

\* C10: on every call of binary_search made for a valid input low <= high, the
\* function passed is non-decreasing on [low, high], it is evaluated inside
\* [low, high] only, and pmf, cdf, sf get arguments in [0, n] only.
C10_SearchPrecondition ==
    /\ fmode # "none" =>
         /\ lowArg <= highArg
         /\ NonDecreasing(fmode, p.num, n, ftab, lowArg, highArg)
         /\ evals \subseteq lowArg..highArg
    /\ \A c \in calls : c[2] \in 0..n

====
